---- MODULE Spec2Model ----
(***************************************************************************)
(* Model of photoborder: the command line run of main.py (file selection,  *)
(* the per-image pipeline of process_image, output naming), the font size  *)
(* search and the text cursor of text.py.                                  *)
(*                                                                         *)
(* Strings are sequences of tokens: "photos/a_border-s.jpg" is             *)
(* <<"photos", "/", "a", "_border", "-", "s", ".", "jpg">>.                *)
(***************************************************************************)
EXTENDS Integers, Sequences, FiniteSets, TLC

\* Number of command line runs explored over the same directory.
MaxRuns == 2

(***************************************************************************)
(* Strings                                                                 *)
(***************************************************************************)

\* str.lower() on one token
lower_token(t) ==
    CASE t = "JPG" -> "jpg"
      [] t = "JPEG" -> "jpeg"
      [] t = "PNG" -> "png"
      [] t = "GIF" -> "gif"
      [] OTHER -> t

\* str.lower()
lower(s) == [k \in 1..Len(s) |-> lower_token(s[k])]

\* fnmatch.fnmatch(name, pat): "*" matches any run of tokens (also "/"),
\* every other token matches itself.
RECURSIVE fnmatch(_, _)
fnmatch(name, pat) ==
    IF pat = <<>> THEN name = <<>>
    ELSE IF Head(pat) = "*"
         THEN \/ fnmatch(name, Tail(pat))
              \/ (name # <<>> /\ fnmatch(Tail(name), pat))
         ELSE /\ name # <<>>
              /\ Head(name) = Head(pat)
              /\ fnmatch(Tail(name), Tail(pat))

\* argparse defaults of --include and --exclude
default_include ==
    { <<"*", ".", e>> : e \in {"jpg", "jpeg", "png", "JPG", "JPEG", "PNG"} }

default_exclude == { <<"*", "_border", "*">> }

\* Non-default patterns a user may pass: include everything, exclude *.tmp
custom_include == { <<"*">> }

custom_exclude == { <<"*", ".", "tmp">> }

should_include_file_nofilter(filename, include_patterns, exclude_patterns) ==
    \E p \in include_patterns : fnmatch(filename, p)

should_include_file(filename, include_patterns, exclude_patterns) ==
    /\ \E p \in include_patterns : fnmatch(filename, p)
    /\ ~ \E p \in exclude_patterns : fnmatch(filename, p)

(***************************************************************************)
(* EXIF values                                                             *)
(*                                                                         *)
(* The text of a value is a sequence of tokens: a word, a blank, or a      *)
(* decimal number. A number is held in tenths, with the form it is written *)
(* in: "int" for 23, "float" for 23.0 or 0.5.                              *)
(***************************************************************************)

Word(w) == [kind |-> "word", text |-> w, tenths |-> 0, form |-> ""]

Blank == [kind |-> "blank", text |-> " ", tenths |-> 0, form |-> ""]

Num(tenths, form) == [kind |-> "num", text |-> "", tenths |-> tenths, form |-> form]

Whole(n) == Num(10 * n, "int")

\* A value of the EXIF table or of ExifItem.data: None, a str, or bytes
\* (with the text they decode to, or utf8 = FALSE when they do not decode)
None == [kind |-> "none", s |-> <<>>, utf8 |-> TRUE]

Str(s) == [kind |-> "str", s |-> s, utf8 |-> TRUE]

Bytes(s, utf8) == [kind |-> "bytes", s |-> s, utf8 |-> utf8]

(***************************************************************************)
(* The directory                                                           *)
(***************************************************************************)

\* The directory the runs work on, and os.path.join(root, file)
DirName == <<"photos">>

join(root, file) == root \o <<"/">> \o file

basename(path) == SubSeq(path, Len(DirName) + 2, Len(path))

\* A file: its name, the EXIF entries it carries as (tag, value) pairs, and
\* whether the imaging library can decode it.
File(name, exif_data, readable) ==
    [name |-> name, exif_data |-> exif_data, readable |-> readable]

\* The files a directory may hold at the start, in listing order.
Universe ==
    << File(<<"a", ".", "jpg">>, << <<"Make", Str(<<Word("Canon")>>)>> >>, TRUE),
       File(<<"d", ".", "jpg">>, <<>>, FALSE),
       File(<<"b", ".", "PNG">>, <<>>, TRUE),
       File(<<"c", ".", "gif">>, <<>>, TRUE) >>

\* The sub-sequence of s at the indices in keep
RECURSIVE Pick(_, _)
Pick(s, keep) ==
    IF s = <<>> THEN <<>>
    ELSE LET rest == Pick(Tail(s), { k - 1 : k \in keep \ {1} })
         IN IF 1 \in keep THEN <<Head(s)>> \o rest ELSE rest

InitialDirs == { Pick(Universe, keep) : keep \in SUBSET (1..Len(Universe)) }

names_of(d) == { d[k].name : k \in 1..Len(d) }

file_named(d, name) == d[CHOOSE k \in 1..Len(d) : d[k].name = name]

\* Image.save(path): replaces the file of that name or adds a new entry
write_file(d, f) ==
    IF f.name \in names_of(d)
    THEN [k \in 1..Len(d) |-> IF d[k].name = f.name THEN f ELSE d[k]]
    ELSE Append(d, f)

\* get_directory_files: the entries os.walk lists that pass the patterns
RECURSIVE get_directory_files(_, _, _)
get_directory_files(d, include_patterns, exclude_patterns) ==
    IF d = <<>> THEN <<>>
    ELSE LET rest == get_directory_files(Tail(d), include_patterns, exclude_patterns)
         IN IF should_include_file(Head(d).name, include_patterns, exclude_patterns)
            THEN <<join(DirName, Head(d).name)>> \o rest
            ELSE rest

(***************************************************************************)
(* EXIF and fonts                                                          *)
(***************************************************************************)

\* The keys get_exif always returns
exif_defaults ==
    {"Make", "Model", "LensMake", "LensModel", "FNumber", "FocalLength",
     "ISOSpeedRatings", "ExposureTime"}

\* A value of the dict get_exif returns: the str it was pre-filled with, or
\* the ExifItem stored for a tag of the image
Plain(s) == [is_item |-> FALSE, tag |-> "", data |-> Str(s)]

ExifItem(tag, data) == [is_item |-> TRUE, tag |-> tag, data |-> data]

\* data.decode() inside try/except UnicodeDecodeError: pass
decode_or_keep(data) ==
    IF data.kind = "bytes" /\ data.utf8 THEN Str(data.s) ELSE data

\* get_exif(img): a dict, a function from its keys. The eight default keys
\* are present whether or not the image carries EXIF data.
get_exif(exif_data) ==
    LET found == { exif_data[k][1] : k \in 1..Len(exif_data) }
        at(t) == CHOOSE k \in 1..Len(exif_data) : exif_data[k][1] = t
    IN [t \in exif_defaults \cup found |->
            IF t \in found
            THEN ExifItem(t, decode_or_keep(exif_data[at(t)][2]))
            ELSE Plain(<<>>)]

\* bool(d) of a dict
dict_truthy(d) == DOMAIN d # {}

\* Positional parameters of text.validate_font, and the arguments main.py
\* passes to it
validate_font_params == 2

validate_font_args == 1

\* text.validate_font(fontpath, index): an error message, or None
validate_font(isfile, variants, index) ==
    IF ~ isfile THEN "does not exist"
    ELSE IF index \notin variants THEN "does not contain a variant"
    ELSE "None"

\* The call validate_font(f) of process_image: Python raises TypeError when
\* a required positional argument is missing.
call_validate_font(isfile) ==
    IF validate_font_args # validate_font_params
    THEN [raised |-> "TypeError", value |-> "None"]
    ELSE [raised |-> "", value |-> validate_font(isfile, {0}, 0)]

\* bool(v) of a str-or-None
str_truthy(v) == v # "None" /\ v # ""

(***************************************************************************)
(* process_image                                                           *)
(***************************************************************************)

filetypes == { <<"jpg">>, <<"jpeg">>, <<"png">> }

\* Index of the last "." of path, 0 when there is none
last_dot(path) ==
    LET dots == { k \in 1..Len(path) : path[k] = "." }
    IN IF dots = {} THEN 0 ELSE CHOOSE k \in dots : \A j \in dots : j <= k

\* path.split('.')[-1] and ".".join(path.split('.')[:-1])
ext_of(path) == SubSeq(path, last_dot(path) + 1, Len(path))

filename_of(path) ==
    IF last_dot(path) = 0 THEN <<>> ELSE SubSeq(path, 1, last_dot(path) - 1)

\* What one call of process_image does: the exception it raises ("" for
\* none), its return value (<<>> for None), what it logs, whether it opened
\* the image, the handles still open when it exits, and the file it writes.
Outcome(raised, ret, logs, opened, open_after, writes, exif_applied, palette_applied) ==
    [raised |-> raised, ret |-> ret, logs |-> logs, opened |-> opened,
     open_after |-> open_after, writes |-> writes,
     exif_applied |-> exif_applied, palette_applied |-> palette_applied]

process_image(d, path, add_exif, add_palette, border_type, fontfiles) ==
    LET ext == ext_of(path)
        filename == filename_of(path)
    IN
    IF ext = <<>> \/ lower(ext) \notin filetypes
    THEN Outcome("", <<>>, <<"error: Image must be one of">>, FALSE, {}, {}, FALSE, FALSE)
    ELSE
    LET img == file_named(d, basename(path)) IN
    IF ~ img.readable
    THEN Outcome("UnidentifiedImageError", <<>>, <<>>, FALSE, {}, {}, FALSE, FALSE)
    ELSE
    LET save_as0 == filename \o <<"_border", "-", border_type>>
        exif == get_exif(img.exif_data)
        use_exif == add_exif /\ dict_truthy(exif)
        calls == [f \in {"regular", "bold"} |-> call_validate_font(f \in fontfiles)]
        type_error == \E f \in {"regular", "bold"} : calls[f].raised # ""
        error_messages == { f \in {"regular", "bold"} : ~ str_truthy(calls[f].value) }
        save_as1 == IF use_exif THEN save_as0 \o <<"_exif">> ELSE save_as0
        save_as2 == IF add_palette THEN save_as1 \o <<"_palette">> ELSE save_as1
        save_path == save_as2 \o <<".">> \o ext
    IN
    IF use_exif /\ type_error
    THEN Outcome("TypeError", <<>>, <<>>, TRUE, {"img", "img_with_border"}, {}, FALSE, FALSE)
    ELSE IF use_exif /\ error_messages # {}
    THEN Outcome("ValueError", <<>>, <<>>, TRUE, {"img", "img_with_border"}, {}, FALSE, FALSE)
    ELSE Outcome("", save_path, <<>>, TRUE, {},
                 { File(basename(save_path), img.exif_data, TRUE) },
                 use_exif, add_palette)

(***************************************************************************)
(* main: one command line run per StartRun .. exit                         *)
(***************************************************************************)

VARIABLES
    dir,        \* the directory's files, in listing order
    fontfiles,  \* the font files present in the fonts directory
    args,       \* the parsed command line of the current run
    pc,         \* "idle", "loop" (main's for loop), "exit"
    paths,      \* main's list of selected paths
    i,          \* index of the next path of the loop
    log,        \* the log records of the current run
    calls,      \* the process_image calls of the current run, with outcomes
    handles,    \* image handles open in the current process
    exit_code,  \* 0, or 1 after an uncaught exception
    runs,       \* number of runs started
    outputs     \* names of the files process_image has written, all runs

VARIABLES
    font_in,    \* get_optimal_font_size: its arguments and the measurement
    low, high,  \* its search interval
    fpc,        \* "loop", "done"
    iters,      \* check_size calls made
    result      \* the value returned

VARIABLES
    cursor,     \* the xy threaded through draw_text_on_image, in half pixels
    drawn       \* the draw_text_on_image calls made so far

runVars == <<dir, fontfiles, args, pc, paths, i, log, calls, handles, exit_code,
             runs, outputs>>

fontVars == <<font_in, low, high, fpc, iters, result>>

textVars == <<cursor, drawn>>

VARIABLES
    border_in,  \* get_border_size: its arguments
    border_out, \* what the call did: the exception raised, the value returned
    item_in,    \* ExifItem: its tag and data
    item_out,   \* str(ExifItem(tag, data))
    exif_in,    \* get_exif: the EXIF entries of the image
    exif_out    \* the dict returned, each value rendered with str()

pureVars == <<border_in, border_out, item_in, item_out, exif_in, exif_out>>

vars == <<runVars, fontVars, textVars, pureVars>>

\* argparse default of --border_type (BorderType.SMALL)
BorderTypes == {"s"}

Args(exif, palette, border_type, include, exclude, mode, target) ==
    [exif |-> exif, palette |-> palette, border_type |-> border_type,
     include |-> include, exclude |-> exclude, mode |-> mode, target |-> target]

\* The command lines explored: path is the directory, one of its files, or
\* a path that does not exist.
ArgChoices(d) ==
    { Args(e, p, t, inc, exc, m[1], m[2]) :
        e \in BOOLEAN, p \in BOOLEAN, t \in BorderTypes,
        inc \in {default_include, custom_include},
        exc \in {default_exclude, custom_exclude},
        m \in {<<"dir", DirName>>, <<"invalid", <<"nowhere">> >>}
              \cup { <<"file", join(DirName, n)>> : n \in names_of(d) } }

FontIdle == /\ font_in = [text_height |-> <<>>, target_height |-> 0,
                          max_font_size |-> 0, min_font_size |-> 0]
            /\ low = 0 /\ high = 0 /\ fpc = "done" /\ iters = 0 /\ result = 0

TextIdle == cursor = <<0, 0>> /\ drawn = <<>>

BorderIdle ==
    /\ border_in = <<0, 0, 0>>
    /\ border_out = [done |-> FALSE, raised |-> "", value |-> 0]

ItemIdle ==
    /\ item_in = [tag |-> "", data |-> None]
    /\ item_out = [done |-> FALSE, text |-> <<>>]

ExifIdle ==
    /\ exif_in = <<>>
    /\ exif_out = [done |-> FALSE, dict |-> <<>>]

PureIdle == BorderIdle /\ ItemIdle /\ ExifIdle

RunIdle ==
    /\ args = Args(FALSE, FALSE, "s", default_include, default_exclude, "dir", DirName)
    /\ pc = "idle"
    /\ paths = <<>>
    /\ i = 1
    /\ log = <<>>
    /\ calls = <<>>
    /\ handles = {}
    /\ exit_code = 0
    /\ runs = 0
    /\ outputs = {}

Init ==
    /\ dir \in InitialDirs
    /\ fontfiles \in SUBSET {"regular", "bold"}
    /\ RunIdle
    /\ FontIdle
    /\ TextIdle
    /\ PureIdle

\* main, lines 133-145: parse the arguments and select the paths
select_paths(d, a) ==
    IF a.mode = "dir"
    THEN [paths |-> get_directory_files(d, a.include, a.exclude), log |-> <<>>]
    ELSE IF a.mode = "file"
    THEN IF should_include_file(a.target, a.include, a.exclude)
         THEN [paths |-> <<a.target>>, log |-> <<>>]
         ELSE [paths |-> <<>>, log |-> <<"info: Skipping">>]
    ELSE [paths |-> <<>>, log |-> <<"error: not a valid file or directory">>]

StartRun ==
    /\ pc \in {"idle", "exit"}
    /\ runs < MaxRuns
    /\ \E a \in ArgChoices(dir) :
          /\ args' = a
          /\ paths' = select_paths(dir, a).paths
          /\ log' = select_paths(dir, a).log
    /\ pc' = "loop"
    /\ i' = 1
    /\ calls' = <<>>
    /\ handles' = {}
    /\ exit_code' = 0
    /\ runs' = runs + 1
    /\ UNCHANGED <<dir, fontfiles, outputs, fontVars, textVars, pureVars>>

\* One iteration of main's for loop: process_image on the next path, then
\* either the "Saved as" log line or the exception leaving main.
ProcessNext ==
    /\ pc = "loop"
    /\ i <= Len(paths)
    /\ LET r == process_image(dir, paths[i], args.exif, args.palette,
                              args.border_type, fontfiles)
       IN /\ calls' = Append(calls, [path |-> paths[i], outcome |-> r])
          /\ handles' = handles \cup { <<i, h>> : h \in r.open_after }
          /\ dir' = IF r.writes = {} THEN dir
                    ELSE write_file(dir, CHOOSE f \in r.writes : TRUE)
          /\ outputs' = outputs \cup { f.name : f \in r.writes }
          /\ IF r.raised = ""
             THEN /\ log' = log \o <<"info: Adding border">> \o r.logs \o <<"info: Saved as">>
                  /\ i' = i + 1
                  /\ UNCHANGED <<pc, exit_code>>
             ELSE IF r.raised = "ValueError"
             THEN /\ log' = log \o <<"info: Adding border">> \o r.logs \o <<"error: ValueError">>
                  /\ pc' = "exit"
                  /\ UNCHANGED <<i, exit_code>>
             ELSE /\ log' = log \o <<"info: Adding border">> \o r.logs
                  /\ pc' = "exit"
                  /\ exit_code' = 1
                  /\ UNCHANGED i
    /\ UNCHANGED <<fontfiles, args, paths, runs, fontVars, textVars, pureVars>>

\* The loop is over: main returns
Finish ==
    /\ pc = "loop"
    /\ i > Len(paths)
    /\ pc' = "exit"
    /\ UNCHANGED <<dir, fontfiles, args, paths, i, log, calls, handles, exit_code,
                   runs, outputs, fontVars, textVars, pureVars>>

Next == StartRun \/ ProcessNext \/ Finish

Spec == Init /\ [][Next]_vars

(***************************************************************************)
(* Properties of the run                                                   *)
(***************************************************************************)

count(tok, s) == Cardinality({ k \in 1..Len(s) : s[k] = tok })

supported(path) == ext_of(path) # <<>> /\ lower(ext_of(path)) \in filetypes

readable(path) == file_named(dir, basename(path)).readable

has_metadata(path) == file_named(dir, basename(path)).exif_data # <<>>

saved(k) == calls[k].outcome.raised = "" /\ calls[k].outcome.ret # <<>>

\* The name the output naming contract gives the output of path
contract_name(path) ==
    filename_of(path) \o <<"_border", "-", args.border_type>>
    \o (IF args.exif /\ has_metadata(path) THEN <<"_exif">> ELSE <<>>)
    \o (IF args.palette THEN <<"_palette">> ELSE <<>>)
    \o <<".">> \o ext_of(path)

\* C1: process_image writes its output to
\* {basename}_border-{style}[_exif][_palette].{ext}, with _palette exactly
\* when the palette was drawn and _exif only when the image carried metadata:
\* a supported, decodable image with no EXIF data gets its output, named
\* without _exif, also when metadata was requested with -e.
C1_OutputNameContract ==
    \A k \in 1..Len(calls) :
        (/\ supported(calls[k].path)
         /\ readable(calls[k].path)
         /\ ~ has_metadata(calls[k].path)) =>
            /\ saved(k)
            /\ calls[k].outcome.ret = contract_name(calls[k].path)
            /\ basename(calls[k].outcome.ret) \in names_of(dir)

\* C2: suffixes never accumulate: whatever suffixes the input name carries,
\* the output name carries _border, _exif and _palette at most once.
C2_NamingIdempotent ==
    \A k \in 1..Len(calls) :
        saved(k) =>
            /\ count("_border", calls[k].outcome.ret) = 1
            /\ count("_exif", calls[k].outcome.ret) <= 1
            /\ count("_palette", calls[k].outcome.ret) <= 1

\* C3: in a directory run a failure on one image aborts that image only:
\* when the run has ended, every selected path has been processed, and every
\* image that did not fail has its output.
C3_BatchFaultIsolation ==
    (args.mode = "dir" /\ pc = "exit") =>
        /\ Len(calls) = Len(paths)
        /\ \A k \in 1..Len(calls) :
              (supported(paths[k]) /\ calls[k].outcome.raised = "") => saved(k)

fonts_available == {"regular", "bold"} \subseteq fontfiles

font_error(k) == calls[k].outcome.raised \in {"TypeError", "ValueError"}

\* C4: a run that draws metadata text with an unavailable font fails before
\* any image is opened and writes no output; with both fonts available font
\* validation never aborts the run.
C4_FontFailFast ==
    /\ (~ fonts_available /\ args.exif) =>
          \A k \in 1..Len(calls) :
              ~ calls[k].outcome.opened /\ calls[k].outcome.writes = {}
    /\ fonts_available => \A k \in 1..Len(calls) : ~ font_error(k)

\* C5: no image handle is open once process_image has exited, on any exit
\* path.
C5_HandlesReleased == handles = {}

unsupported_files == { k \in 1..Len(dir) : ~ supported(join(DirName, dir[k].name)) }

skip_logs == { k \in 1..Len(log) : log[k] = "error: Image must be one of" }

\* C6: a directory run in which no image fails completes successfully, logs
\* one skip message per unsupported file of the directory, and yields one
\* output per supported file it selected.
C6_UnsupportedSkipped ==
    (/\ args.mode = "dir"
     /\ pc = "exit"
     /\ \A k \in 1..Len(calls) : calls[k].outcome.raised = "") =>
        /\ exit_code = 0
        /\ Cardinality(skip_logs) = Cardinality(unsupported_files)
        /\ \A k \in 1..Len(calls) : supported(paths[k]) => saved(k)

\* C7: every output name matches the default exclude pattern, as a file name
\* (directory mode) and as a full path (single-file mode), and a run with the
\* default exclude never selects a file process_image has written.
C7_OutputsNotReprocessed ==
    /\ \A k \in 1..Len(calls) :
          saved(k) =>
              \A pat \in default_exclude :
                  /\ fnmatch(basename(calls[k].outcome.ret), pat)
                  /\ fnmatch(calls[k].outcome.ret, pat)
    /\ args.exclude = default_exclude =>
          \A k \in 1..Len(paths) : basename(paths[k]) \notin outputs

\* A second run with the default patterns has selected files of a directory
\* that holds outputs of the first run.
C7_Witness ==
    /\ runs = 2
    /\ pc = "loop"
    /\ i = 1
    /\ paths # <<>>
    /\ args.include = default_include
    /\ args.exclude = default_exclude
    /\ \E n \in outputs : n \in names_of(dir)

(***************************************************************************)
(* text.get_optimal_font_size                                              *)
(***************************************************************************)

\* Font sizes and measured text heights explored
MaxFontSize == 4

MaxHeight == 2

\* check_size(font_size): the text measured at font_size fits the target
check_size_inverted(text_height, target_height, font_size) ==
    text_height[font_size] >= target_height

check_size(text_height, target_height, font_size) ==
    text_height[font_size] <= target_height

\* The loop body probing low instead of the middle
search_step_from_low(lo, hi, text_height, target_height) ==
    IF check_size(text_height, target_height, lo)
    THEN <<lo + 1, hi>>
    ELSE <<lo, lo - 1>>

\* One iteration of the while loop: the next <<low, high>>
search_step(lo, hi, text_height, target_height) ==
    LET mid == (lo + hi) \div 2
    IN IF check_size(text_height, target_height, mid)
       THEN <<mid + 1, hi>>
       ELSE <<lo, mid - 1>>

\* The value returned once the loop has ended
search_result_low(lo, hi) == lo

search_result(lo, hi) == hi

\* get_optimal_font_size as a function of its arguments
RECURSIVE search(_, _, _, _)
search(lo, hi, text_height, target_height) ==
    IF lo <= hi
    THEN LET n == search_step(lo, hi, text_height, target_height)
         IN search(n[1], n[2], text_height, target_height)
    ELSE search_result(lo, hi)

get_optimal_font_size(text_height, target_height, max_font_size, min_font_size) ==
    search(min_font_size, max_font_size, text_height, target_height)

\* The call under study: a measurement (text height at each font size, of
\* any shape), a target height and the size bounds.
InitFont ==
    /\ dir = <<>>
    /\ fontfiles = {}
    /\ RunIdle
    /\ TextIdle
    /\ PureIdle
    /\ font_in \in [text_height : [1..MaxFontSize -> 0..MaxHeight],
                    target_height : 0..MaxHeight,
                    max_font_size : 1..MaxFontSize,
                    min_font_size : 1..MaxFontSize]
    /\ low = font_in.min_font_size
    /\ high = font_in.max_font_size
    /\ fpc = "loop"
    /\ iters = 0
    /\ result = 0

FontStep ==
    /\ fpc = "loop"
    /\ low <= high
    /\ LET n == search_step(low, high, font_in.text_height, font_in.target_height)
       IN low' = n[1] /\ high' = n[2]
    /\ iters' = iters + 1
    /\ UNCHANGED <<font_in, fpc, result, runVars, textVars, pureVars>>

FontReturn ==
    /\ fpc = "loop"
    /\ low > high
    /\ fpc' = "done"
    /\ result' = search_result(low, high)
    /\ UNCHANGED <<font_in, low, high, iters, runVars, textVars, pureVars>>

NextFont == FontStep \/ FontReturn

SpecFont == InitFont /\ [][NextFont]_vars

returned == search_result(low, high)

in_range(s) == font_in.min_font_size <= s /\ s <= font_in.max_font_size

fits(s) == font_in.text_height[s] <= font_in.target_height

\* The measured height is non-decreasing in the font size over the range
monotone_measure ==
    \A s, t \in 1..MaxFontSize :
        (in_range(s) /\ in_range(t) /\ s <= t) =>
            font_in.text_height[s] <= font_in.text_height[t]

C9_MonotonicInTarget ==
    fpc = "done" =>
        \A t \in 0..MaxHeight :
            LET other == get_optimal_font_size(font_in.text_height, t,
                                               font_in.max_font_size,
                                               font_in.min_font_size)
            IN /\ t >= font_in.target_height => other >= returned
               /\ t <= font_in.target_height => other <= returned

\* A search has returned a size that a larger target strictly improves on
C9_Witness ==
    /\ fpc = "done"
    /\ \E t \in 0..MaxHeight :
          /\ t > font_in.target_height
          /\ get_optimal_font_size(font_in.text_height, t, font_in.max_font_size,
                                   font_in.min_font_size) > returned

(***************************************************************************)
(* text.draw_text_on_image                                                 *)
(*                                                                         *)
(* Coordinates are kept in half pixels (twice their value), so that the    *)
(* divisions by two of the source are exact: pixel widths and sizes are    *)
(* doubled where they are added to a coordinate.                           *)
(***************************************************************************)

\* Lines drawn in one pass, text widths, font sizes and image widths explored
MaxLines == 2

MaxTextWidth == 2

MaxSize == 2

MaxImgWidth == 4

\* draw_text_on_image(img, text, xy, centered, font): where the line is
\* drawn and the xy returned, for an image img_width wide and a text that
\* measures w pixels at this font.
draw_text_on_image_offset(img_width, w, xy, centered, size) ==
    LET x == IF centered THEN xy[1] + (img_width - w) ELSE xy[1]
        y == xy[2]
        next_y == IF centered THEN y + 2 * size + size ELSE y
        next_x == IF centered THEN x ELSE x + 2 * w + size
    IN [at |-> <<x, y>>, next |-> <<next_x, next_y>>]

draw_text_on_image(img_width, w, xy, centered, size) ==
    LET x == IF centered THEN img_width - w ELSE xy[1]
        y == xy[2]
        next_y == IF centered THEN y + 2 * size + size ELSE y
        next_x == IF centered THEN x ELSE x + 2 * w + size
    IN [at |-> <<x, y>>, next |-> <<next_x, next_y>>]

InitText ==
    /\ dir = <<>>
    /\ fontfiles = {}
    /\ RunIdle
    /\ FontIdle
    /\ PureIdle
    /\ cursor \in {<<0, 0>>, <<3, 2>>}
    /\ drawn = <<>>

\* One call, the xy of the previous call threaded in
DrawText ==
    /\ Len(drawn) < MaxLines
    /\ \E img_width \in (MaxImgWidth - 1)..MaxImgWidth, w \in 0..MaxTextWidth,
          centered \in BOOLEAN, size \in 1..MaxSize :
          LET r == draw_text_on_image(img_width, w, cursor, centered, size)
          IN /\ drawn' = Append(drawn, [xy |-> cursor, img_width |-> img_width,
                                        w |-> w, centered |-> centered,
                                        size |-> size, at |-> r.at,
                                        next |-> r.next])
             /\ cursor' = r.next
    /\ UNCHANGED <<runVars, fontVars, pureVars>>

NextText == DrawText

SpecText == InitText /\ [][NextText]_vars

\* C10: centered, the line is drawn at x = (image width - text width) / 2
\* whatever the incoming x, and the next cursor is that x and
\* y + font.size + font.size / 2; left-flowing, the line is drawn at the
\* incoming xy and the next cursor is x + text width + font.size / 2 at the
\* same y. (Both sides of each equation are doubled.)
C10_CursorModes ==
    \A k \in 1..Len(drawn) :
        LET d == drawn[k] IN
        /\ d.centered =>
              /\ d.at = <<d.img_width - d.w, d.xy[2]>>
              /\ d.next = <<d.img_width - d.w, d.xy[2] + 3 * d.size>>
        /\ ~ d.centered =>
              /\ d.at = d.xy
              /\ d.next = <<d.xy[1] + 2 * d.w + d.size, d.xy[2]>>
        /\ k > 1 => d.xy = drawn[k - 1].next

\* A left-flowing line was drawn, then a centered one whose incoming x was
\* not the centered x.
C10_Witness ==
    /\ Len(drawn) >= 2
    /\ ~ drawn[1].centered
    /\ drawn[1].w > 0
    /\ drawn[2].centered
    /\ drawn[2].xy[1] # drawn[2].at[1]
    /\ drawn[2].xy[1] # 0

(***************************************************************************)
(* border.get_border_size                                                  *)
(*                                                                         *)
(* With A = img_width * img_height >= 0 and x = A * (golden_ratio - 1),    *)
(* ceil(sqrt(x) / divisor) is the least integer n >= 0 with                *)
(* (n * divisor)^2 >= A * (sqrt(5) - 1) / 2, that is, with                 *)
(* (2 * (n * divisor)^2 + A)^2 >= 5 * A^2.                                 *)
(***************************************************************************)

\* Image dimensions and divisors explored, besides the divisors create_border
\* uses
MaxDim == 5

MaxDivisor == 3

\* create_border's divisors: the sides and the bottom band
side_divisor == 32

bottom_divisor == 6

Dims == (-MaxDim..MaxDim) \cup {40, 60}

Divisors == (1..MaxDivisor) \cup {side_divisor, bottom_divisor}

\* math.ceil(math.sqrt(canvas_area - img_area) / divisor), counting up from n
RECURSIVE ceil_sqrt_div(_, _, _)
ceil_sqrt_div(area, divisor, n) ==
    IF (2 * (n * divisor) * (n * divisor) + area)
         * (2 * (n * divisor) * (n * divisor) + area) >= 5 * area * area
    THEN n
    ELSE ceil_sqrt_div(area, divisor, n + 1)

\* The size multiplied by the divisor instead of divided
get_border_size_multiplied(img_width, img_height, divisor) ==
    LET img_area == img_width * img_height
    IN IF img_area < 0
       THEN [done |-> TRUE, raised |-> "ValueError", value |-> 0]
       ELSE [done |-> TRUE, raised |-> "",
             value |-> ceil_sqrt_div(img_area, 1, 0) * divisor]

\* get_border_size(img_width, img_height, divisor): math.sqrt raises
\* ValueError on a negative argument
get_border_size(img_width, img_height, divisor) ==
    LET img_area == img_width * img_height
    IN IF img_area < 0
       THEN [done |-> TRUE, raised |-> "ValueError", value |-> 0]
       ELSE [done |-> TRUE, raised |-> "",
             value |-> ceil_sqrt_div(img_area, divisor, 0)]

InitBorder ==
    /\ dir = <<>>
    /\ fontfiles = {}
    /\ RunIdle
    /\ FontIdle
    /\ TextIdle
    /\ ItemIdle
    /\ ExifIdle
    /\ border_in \in Dims \X Dims \X Divisors
    /\ border_out = [done |-> FALSE, raised |-> "", value |-> 0]

BorderSize ==
    /\ ~ border_out.done
    /\ border_out' = get_border_size(border_in[1], border_in[2], border_in[3])
    /\ UNCHANGED <<border_in, item_in, item_out, exif_in, exif_out,
                   runVars, fontVars, textVars>>

NextBorder == BorderSize

SpecBorder == InitBorder /\ [][NextBorder]_vars

\* C11: for positive width, height and divisor the border size is a
\* non-negative integer, and no larger divisor gives a larger size and no
\* smaller one a smaller size; the bottom band of the Polaroid border
\* (divisor 6) is never thinner than its sides (divisor 32).
C11_BorderSizeMonotone ==
    (border_out.done /\ border_in[1] > 0 /\ border_in[2] > 0) =>
        /\ border_out.raised = ""
        /\ border_out.value \in Nat
        /\ \A d \in Divisors :
              LET other == get_border_size(border_in[1], border_in[2], d)
              IN /\ border_in[3] <= d => border_out.value >= other.value
                 /\ d <= border_in[3] => other.value >= border_out.value
        /\ get_border_size(border_in[1], border_in[2], bottom_divisor).value
             >= get_border_size(border_in[1], border_in[2], side_divisor).value

\* The size of a positive image was computed, and a larger divisor gives a
\* strictly smaller one.
C11_Witness ==
    /\ border_out.done
    /\ border_in[1] > 0
    /\ border_in[2] > 0
    /\ border_out.value > 1
    /\ \E d \in Divisors :
          /\ d > border_in[3]
          /\ get_border_size(border_in[1], border_in[2], d).value < border_out.value

\* C12: with width <= 0 or height <= 0 get_border_size raises an error or
\* returns a clamped value, never a positive size computed from the invalid
\* dimensions.
C12_InvalidDimensionsRejected ==
    (border_out.done /\ (border_in[1] <= 0 \/ border_in[2] <= 0)) =>
        (border_out.raised # "" \/ border_out.value = 0)

(***************************************************************************)
(* exif.ExifItem                                                           *)
(***************************************************************************)

\* Largest exposure value explored, in tenths of a second, and largest whole
\* number written without a decimal point
MaxTenths == 25

MaxWhole == 3

RECURSIVE gcd(_, _)
gcd(a, b) == IF b = 0 THEN a ELSE gcd(b, a % b)

\* str.strip()
RECURSIVE lstrip(_)
lstrip(s) ==
    IF s # <<>> /\ Head(s).kind = "blank" THEN lstrip(Tail(s)) ELSE s

RECURSIVE rstrip(_)
rstrip(s) ==
    IF s # <<>> /\ s[Len(s)].kind = "blank"
    THEN rstrip(SubSeq(s, 1, Len(s) - 1))
    ELSE s

strip(s) == rstrip(lstrip(s))

\* str(data): the text of a str, the repr of bytes
str_of(data) ==
    CASE data.kind = "str" -> data.s
      [] data.kind = "bytes" -> <<Word("b'")>> \o data.s \o <<Word("'")>>
      [] OTHER -> <<Word("None")>>

\* Fraction(s) and float(s) accept the text of one number
is_number(s) == Len(s) = 1 /\ s[1].kind = "num"

\* format_shutter_speed(shutter_speed): a value of t tenths is the fraction
\* t/10, whose numerator in lowest terms is t / gcd(t, 10); below one second
\* int(1 / float) is 10 \div t; ValueError and ZeroDivisionError return the
\* argument.
format_shutter_speed(shutter_speed) ==
    IF ~ is_number(shutter_speed) THEN shutter_speed
    ELSE LET t == shutter_speed[1].tenths
         IN IF t >= 10 THEN <<Whole(t \div gcd(t, 10))>>
            ELSE IF t = 0 THEN shutter_speed
            ELSE <<Whole(1), Word("/"), Whole(10 \div t)>>

\* format_focal_length(focal_length): round(float(s), 2), a float, which the
\* template then writes with its decimal point; ValueError returns the
\* argument.
format_focal_length(focal_length) ==
    IF ~ is_number(focal_length) THEN focal_length
    ELSE <<Num(focal_length[1].tenths, "float")>>

\* ExifItem.formatter
formatter_tags == {"Make", "FocalLength", "FNumber", "ISOSpeedRatings", "ExposureTime"}

formatter(tag, dataval) ==
    CASE tag = "Make" -> <<Word("Shot on"), Blank>> \o dataval
      [] tag = "FocalLength" -> dataval \o <<Word("mm")>>
      [] tag = "FNumber" -> <<Word("f/")>> \o dataval
      [] tag = "ISOSpeedRatings" -> <<Word("ISO")>> \o dataval
      [] tag = "ExposureTime" -> dataval \o <<Blank, Word("sec")>>
      [] OTHER -> dataval

\* ExifItem.__str__
ExifItem_str(tag, data) ==
    IF data.kind = "none" \/ (data.kind = "str" /\ data.s = <<>>) THEN <<>>
    ELSE LET fmt0 == strip(str_of(data))
             fmt1 == IF tag = "ExposureTime" THEN format_shutter_speed(fmt0) ELSE fmt0
             fmt2 == IF tag = "FocalLength" THEN format_focal_length(fmt1) ELSE fmt1
         IN IF tag \in formatter_tags THEN formatter(tag, fmt2) ELSE fmt2

\* str() of a value of the dict get_exif returns
value_str(v) == IF v.is_item THEN ExifItem_str(v.tag, v.data) ELSE v.data.s

ItemTags == {"ExposureTime", "FocalLength", "Make", "UnknownItem"}

\* The data explored: None, '', numbers written as decimals or as whole
\* numbers, bare or followed by blanks, and a word between blanks
ItemData ==
    {None, Str(<<>>), Str(<<Blank, Word("Bleh"), Blank, Blank>>)}
    \cup { Str(<<Num(t, "float")>>) : t \in 0..MaxTenths }
    \cup { Str(<<Whole(n)>>) : n \in 1..MaxWhole }
    \cup { Str(<<Whole(n), Blank, Blank>>) : n \in (1..MaxWhole) \cup {23} }

InitItem ==
    /\ dir = <<>>
    /\ fontfiles = {}
    /\ RunIdle
    /\ FontIdle
    /\ TextIdle
    /\ BorderIdle
    /\ ExifIdle
    /\ item_in \in [tag : ItemTags, data : ItemData]
    /\ item_out = [done |-> FALSE, text |-> <<>>]

FormatItem ==
    /\ ~ item_out.done
    /\ item_out' = [done |-> TRUE, text |-> ExifItem_str(item_in.tag, item_in.data)]
    /\ UNCHANGED <<item_in, border_in, border_out, exif_in, exif_out,
                   runVars, fontVars, textVars>>

NextItem == FormatItem

SpecItem == InitItem /\ [][NextItem]_vars

trimmed == strip(item_in.data.s)

abs(n) == IF n < 0 THEN -n ELSE n

\* C13: a positive ExposureTime renders as the nearest simple fraction and
\* ' sec': a value >= 1 as its whole number alone, a value < 1 as
\* 1/round(1/value). For a value of t tenths, n is the whole number when
\* |n - t/10| <= 1/2 and r is round(1/value) when |r - 10/t| <= 1/2 (either
\* way of rounding a half is accepted).
C13_ExposureNearestFraction ==
    (/\ item_out.done
     /\ item_in.tag = "ExposureTime"
     /\ item_in.data.kind = "str"
     /\ is_number(trimmed)
     /\ trimmed[1].tenths > 0) =>
        LET t == trimmed[1].tenths IN
        IF t >= 10
        THEN \E n \in 1..MaxTenths :
                /\ 2 * abs(10 * n - t) <= 10
                /\ item_out.text = <<Whole(n), Blank, Word("sec")>>
        ELSE \E r \in 1..10 :
                /\ 2 * abs(r * t - 10) <= t
                /\ item_out.text = <<Whole(1), Word("/"), Whole(r), Blank, Word("sec")>>

\* C14: str(ExifItem(tag, data)) is the tag's template applied to the trimmed
\* data: a FocalLength whose trimmed value is a whole number n renders as
\* "<n>mm", a tag without template renders as the trimmed data, and data
\* that is None or '' renders as '' for every tag.
C14_TemplateOnTrimmedData ==
    item_out.done =>
        /\ (item_in.data = None \/ item_in.data = Str(<<>>)) => item_out.text = <<>>
        /\ (/\ item_in.tag = "FocalLength"
            /\ is_number(trimmed)
            /\ trimmed[1].form = "int") =>
              item_out.text = <<trimmed[1], Word("mm")>>
        /\ (item_in.tag \notin formatter_tags /\ item_in.data.kind = "str") =>
              item_out.text = trimmed

(***************************************************************************)
(* exif.get_exif                                                           *)
(***************************************************************************)

\* Entries of the EXIF table of one image
MaxFields == 2

FieldTags == {"Make", "Model", "MakerNote"}

FieldData ==
    { Str(<<Word("Canon")>>),
      Bytes(<<Word("EOS")>>, TRUE),
      Bytes(<<Word("\\xff")>>, FALSE) }

\* The tables explored: up to MaxFields entries with distinct tags
ExifTables ==
    { t \in UNION { [1..n -> FieldTags \X FieldData] : n \in 0..MaxFields } :
        \A j, k \in 1..Len(t) : j # k => t[j][1] # t[k][1] }

InitExif ==
    /\ dir = <<>>
    /\ fontfiles = {}
    /\ RunIdle
    /\ FontIdle
    /\ TextIdle
    /\ BorderIdle
    /\ ItemIdle
    /\ exif_in \in ExifTables
    /\ exif_out = [done |-> FALSE, dict |-> <<>>]

ExtractExif ==
    /\ ~ exif_out.done
    /\ exif_out' = [done |-> TRUE, dict |-> get_exif(exif_in)]
    /\ UNCHANGED <<exif_in, border_in, border_out, item_in, item_out,
                   runVars, fontVars, textVars>>

NextExif == ExtractExif

SpecExif == InitExif /\ [][NextExif]_vars

undecodable(k) == exif_in[k][2].kind = "bytes" /\ ~ exif_in[k][2].utf8

\* The table without its undecodable entries
RECURSIVE decodable_only(_)
decodable_only(t) ==
    IF t = <<>> THEN <<>>
    ELSE IF Head(t)[2].kind = "bytes" /\ ~ Head(t)[2].utf8
         THEN decodable_only(Tail(t))
         ELSE <<Head(t)>> \o decodable_only(Tail(t))

\* C15: a field whose bytes do not decode becomes empty (it renders as the
\* empty string), the extraction is not aborted, and every other field is
\* extracted as if the failing field were absent.
C15_DecodeFailureSwallowed ==
    exif_out.done =>
        /\ \A k \in 1..Len(exif_in) :
              undecodable(k) => value_str(exif_out.dict[exif_in[k][1]]) = <<>>
        /\ \A k \in 1..Len(exif_in) :
              ~ undecodable(k) =>
                  exif_out.dict[exif_in[k][1]]
                      = get_exif(decodable_only(exif_in))[exif_in[k][1]]

(***************************************************************************)
(* get_optimal_font_size: iterations of the search                         *)
(***************************************************************************)

\* The least k with 2^k >= n
RECURSIVE ceil_log2(_)
ceil_log2(n) == IF n <= 1 THEN 0 ELSE 1 + ceil_log2((n + 1) \div 2)

\* Number of sizes in [min_font_size, max_font_size]
range_sizes == font_in.max_font_size - font_in.min_font_size + 1

\* C16 as stated: for every measurement the loop ends within
\* ceil(log2(range)) iterations and the value of high at loop exit is
\* returned.
C16_IterationsAsClaimed ==
    (fpc = "done" /\ font_in.min_font_size <= font_in.max_font_size) =>
        /\ iters <= ceil_log2(range_sizes)
        /\ result = high

\* C16, amended: for every measurement, monotone or not, the loop never makes
\* more than floor(log2(n)) + 1 = ceil(log2(n + 1)) iterations, n the number
\* of sizes in the range, it can always take its next step until it has
\* returned, and the value of high at loop exit is returned.
C16_IterationsBounded ==
    /\ iters <= ceil_log2(range_sizes + 1)
    /\ fpc # "done" => ENABLED NextFont
    /\ fpc = "done" => (low > high /\ result = high)

\* A search over a measurement that is not monotone has returned after
\* exactly ceil(log2(n + 1)) iterations, more than ceil(log2(n)).
C16_Witness ==
    /\ fpc = "done"
    /\ ~ monotone_measure
    /\ range_sizes >= 2
    /\ iters = ceil_log2(range_sizes + 1)
    /\ iters > ceil_log2(range_sizes)

====
